---- MODULE Spec2Model ----
(***************************************************************************)
(* State-machine model of the SUSE/suse-ai-up example programs:            *)
(*   - examples/discovery/oauth-server.py: the Flask OAuth server          *)
(*     (authorize, token), and the FastMCP server guarded by a             *)
(*     StaticTokenVerifier;                                                *)
(*   - test_stdio_server.py: the line-delimited JSON-RPC stdio server;     *)
(*   - simple_test.py, test_real_stdio.py: the client scripts that drive   *)
(*     the proxy over HTTP;                                                *)
(*   - examples/virtualmcp/src/main.py: the registry of MCP                *)
(*     implementations and its HTTP routes.                                *)
(* The programs are separate processes; each has its own specification     *)
(* (SpecOAuth, SpecStdio, SpecClient, SpecRegistry) over its own variables.*)
(***************************************************************************)
EXTENDS Integers, Sequences, FiniteSets, TLC

(***************************************************************************)
(* Bounds of the model.                                                    *)
(***************************************************************************)
\* int(time.time()) ranges over 0..MaxTime
MaxTime == 1
\* number of successful authorize/token calls kept in the history
MaxOps == 3

(***************************************************************************)
(* Python values.                                                          *)
(***************************************************************************)
\* None where a plain string is expected (request.args.get without default)
None == "<None>"

\* A string built by an f-string "<prefix><int>" is kept as its two parts,
\* so that two such strings are equal iff prefix and number are equal.
FStr(prefix, num) == [prefix |-> prefix, num |-> num]

\* None where an f-string value is expected (request.form.get('code'))
NoneCode == FStr(None, 0)

\* dict.get(key, default)
DictGet(d, key, default) == IF key \in DOMAIN d THEN d[key] ELSE default

\* d[key] = value
DictSet(d, key, value) ==
    [k \in DOMAIN d \cup {key} |-> IF k = key THEN value ELSE d[k]]

EmptyDict == [k \in {} |-> None]

\* A scope string is a space-delimited list of scope names, kept as the
\* sequence of its names; ScopeSet is the set of names it grants.
ScopeSet(scope) == {scope[i] : i \in DOMAIN scope}

(***************************************************************************)
(* oauth-server.py: configuration                                          *)
(***************************************************************************)
CLIENT_ID == "mcp-oauth-test-client"
CLIENT_SECRET == "mcp-oauth-test-secret"

\* The Flask development server handles requests on threads.
Handlers == {"h1", "h2"}

\* Query strings of GET /oauth/authorize (a dict of the arguments present)
AuthorizeArgs ==
    { [client_id |-> CLIENT_ID, redirect_uri |-> "http://cb",
       scope |-> <<"read">>, state |-> "xyz"],
      [client_id |-> CLIENT_ID, redirect_uri |-> "http://cb",
       scope |-> <<"read", "write">>, state |-> "xyz"],
      [client_id |-> CLIENT_ID, redirect_uri |-> "http://cb", state |-> "xyz"],
      [client_id |-> "evil-client", redirect_uri |-> "http://cb",
       scope |-> <<"read">>, state |-> "xyz"],
      [redirect_uri |-> "http://cb", scope |-> <<"read">>, state |-> "xyz"] }

\* request.authorization: absent, or the Basic credentials
NoAuth == [present |-> FALSE, username |-> None, password |-> None]
BasicAuth(u, p) == [present |-> TRUE, username |-> u, password |-> p]
AuthHeaders ==
    { NoAuth,
      BasicAuth(CLIENT_ID, CLIENT_SECRET),
      BasicAuth("evil-client", CLIENT_SECRET),
      BasicAuth(CLIENT_ID, "wrong-secret") }

\* auth_code = f"auth_code_{int(time.time())}"
AuthCode(t) == FStr("auth_code_", t)
\* access_token = f"access_token_{int(time.time())}"
AccessToken(t) == FStr("access_token_", t)

\* Codes a client may send: the codes the server issues at some time (a code
\* whose time has not come, or at whose time no authorize call was made, is
\* a code no authorize call has issued)
CodeInputs == {AuthCode(t) : t \in 0..MaxTime}

\* Form bodies of POST /oauth/token (a dict of the fields present)
CodeForm(c) == [grant_type |-> "authorization_code", code |-> c]
RefreshForm == [grant_type |-> "refresh_token", code |-> AuthCode(0)]
NoCodeForm == [grant_type |-> "authorization_code"]
TokenForms == {CodeForm(c) : c \in CodeInputs} \cup {RefreshForm, NoCodeForm}

\* Requests to POST /oauth/token: the credentials sent and the form
TokenRequests ==
    {[auth |-> BasicAuth(CLIENT_ID, CLIENT_SECRET), form |-> f] : f \in TokenForms}
    \cup {[auth |-> NoAuth, form |-> CodeForm(AuthCode(0))],
          [auth |-> BasicAuth(CLIENT_ID, "wrong-secret"), form |-> CodeForm(AuthCode(0))],
          [auth |-> BasicAuth("evil-client", CLIENT_SECRET), form |-> RefreshForm]}

\* The token table of the StaticTokenVerifier
STATIC_TOKEN == FStr("oauth-test-token", 0)
VerifierTokens ==
    [t \in {STATIC_TOKEN} |->
        [client_id |-> "mcp-oauth-test-client",
         scopes |-> {"read", "write", "mcp:tools"},
         expires_at |-> None]]
RequiredScopes == {"read"}


(***************************************************************************)
(* State                                                                   *)
(***************************************************************************)
VARIABLES
    \* oauth-server.py
    now,         \* int(time.time())
    auth_codes,  \* the dict auth_codes
    tokens,      \* the dict tokens
    pc,          \* where each handler thread stands in token()
    local,       \* the locals of token() on each handler thread
    history,     \* ghost: the successful authorize and token responses, in order;
                 \* a token entry's replay tells that the request arrived after a
                 \* successful exchange of the same code had been answered
    last,        \* ghost: the latest request answered, with its response
    \* test_stdio_server.py
    stdin,       \* ghost: the lines read from sys.stdin so far
    stdout,      \* the lines printed to sys.stdout
    caused_by,   \* ghost: for each printed line, the index of the line that caused it
    eof,         \* sys.stdin is exhausted: the for loop has ended
    crashed,     \* an exception left the for loop: main() has ended
    \* simple_test.py, test_real_stdio.py
    script,      \* which of the two scripts runs, None before one is started
    cpc,         \* where test_service() stands: the request it makes next
    session_id,  \* the local session_id
    tool_name,   \* the local tool_name
    returned,    \* what test_service() returned, None while it runs
    http,        \* ghost: the requests made so far, each with what came back
    \* examples/virtualmcp/src/main.py
    utcnow,           \* datetime.utcnow()
    implementations,  \* registry.implementations
    uuids,            \* ghost: how many ids uuid4() has supplied
    deleting,         \* per id, the DELETE requests that found it and have
                      \* not yet executed the del
    calls,            \* ghost: the number of requests answered
    rlast             \* ghost: the latest request answered, with its answer

oauth_vars == <<now, auth_codes, tokens, pc, local, history, last>>
stdio_vars == <<stdin, stdout, caused_by, eof, crashed>>
client_vars == <<script, cpc, session_id, tool_name, returned, http>>
registry_vars == <<utcnow, implementations, uuids, deleting, calls, rlast>>
vars == <<now, auth_codes, tokens, pc, local, history, last,
          stdin, stdout, caused_by, eof, crashed,
          script, cpc, session_id, tool_name, returned, http,
          utcnow, implementations, uuids, deleting, calls, rlast>>

NoLocal == [auth |-> NoAuth, form |-> EmptyDict, code |-> NoneCode,
            access_token |-> NoneCode, replay |-> FALSE]
NoRequest == [op |-> "none"]

InitOAuth ==
    /\ now = 0
    /\ auth_codes = EmptyDict
    /\ tokens = EmptyDict
    /\ pc = [h \in Handlers |-> "idle"]
    /\ local = [h \in Handlers |-> NoLocal]
    /\ history = <<>>
    /\ last = NoRequest

(***************************************************************************)
(* oauth-server.py: the OAuth routes                                       *)
(***************************************************************************)
\* the handler returns `response` to the client
Respond(response) == last' = response

\* the number of token() calls past the grant check and not yet answered
InFlight == Cardinality({h \in Handlers : pc[h] # "idle"})

\* the model admits MaxOps requests that succeed
Admit == Len(history) + InFlight < MaxOps

\* time.time() advances
Tick ==
    /\ now < MaxTime
    /\ now' = now + 1
    /\ UNCHANGED <<auth_codes, tokens, pc, local, history, last, stdio_vars, client_vars, registry_vars>>

\* the record authorize() stores under the code
CodeRecord(client_id, redirect_uri, scope, state) ==
    [client_id |-> client_id, redirect_uri |-> redirect_uri,
     scope |-> scope, state |-> state]

\* f"{redirect_uri}?code={auth_code}&state={state}"
RedirectUrl(redirect_uri, auth_code, state) ==
    [uri |-> redirect_uri, code |-> auth_code, state |-> state]

\* mutant: any client_id that is present is accepted
AuthorizeClientOk_AnyClient(client_id) == client_id # None

\* the check at the head of authorize()
AuthorizeClientOk(client_id) == client_id = CLIENT_ID

\* GET /oauth/authorize
Authorize(args) ==
    LET client_id    == DictGet(args, "client_id", None)
        redirect_uri == DictGet(args, "redirect_uri", None)
        scope        == DictGet(args, "scope", <<"read">>)
        state        == DictGet(args, "state", "")
        auth_code    == AuthCode(now)
    IN  IF ~AuthorizeClientOk(client_id)
        THEN /\ Respond([op |-> "authorize", args |-> args, status |-> 400,
                         body |-> "Invalid client"])
             /\ UNCHANGED <<now, auth_codes, tokens, pc, local, history>>
        ELSE /\ Admit
             /\ auth_codes' = DictSet(auth_codes, auth_code,
                                  CodeRecord(client_id, redirect_uri, scope, state))
             /\ Respond([op |-> "authorize", args |-> args, status |-> 302,
                         location |-> RedirectUrl(redirect_uri, auth_code, state)])
             /\ history' = Append(history,
                              [op |-> "authorize", code |-> auth_code,
                               scope |-> scope])
             /\ UNCHANGED <<now, tokens, pc, local>>

AuthorizeStep ==
    /\ \E args \in AuthorizeArgs : Authorize(args)
    /\ UNCHANGED <<stdio_vars, client_vars, registry_vars>>

\* mutant: the secret is not compared
TokenClientOk_NoSecret(auth) ==
    ~(~auth.present \/ auth.username # CLIENT_ID)

\* the credential check at the head of token()
TokenClientOk(auth) ==
    ~(~auth.present \/ auth.username # CLIENT_ID \/ auth.password # CLIENT_SECRET)

\* mutant: grant_type is not compared
TokenGrantOk_AnyGrantType(grant_type, code) ==
    ~(code \notin DOMAIN auth_codes)

\* the grant check of token()
TokenGrantOk(grant_type, code) ==
    ~(grant_type # "authorization_code" \/ code \notin DOMAIN auth_codes)

\* ghost: a successful exchange of `code` has been answered
Exchanged(code) ==
    \E i \in DOMAIN history :
        history[i].op = "token" /\ history[i].code = code

\* POST /oauth/token, up to the grant check
TokenBegin(h, auth, form) ==
    LET grant_type == DictGet(form, "grant_type", None)
        code       == DictGet(form, "code", NoneCode)
    IN  /\ pc[h] = "idle"
        /\ IF ~TokenClientOk(auth)
           THEN /\ Respond([op |-> "token", auth |-> auth, form |-> form,
                            status |-> 401, error |-> "invalid_client"])
                /\ UNCHANGED <<pc, local>>
           ELSE IF ~TokenGrantOk(grant_type, code)
           THEN /\ Respond([op |-> "token", auth |-> auth, form |-> form,
                            status |-> 400, error |-> "invalid_grant"])
                /\ UNCHANGED <<pc, local>>
           ELSE /\ Admit
                /\ pc' = [pc EXCEPT ![h] = "mint"]
                /\ local' = [local EXCEPT ![h] =
                                [auth |-> auth, form |-> form, code |-> code,
                                 access_token |-> NoneCode,
                                 replay |-> Exchanged(code)]]
                /\ UNCHANGED last
        /\ UNCHANGED <<now, auth_codes, tokens, history>>

TokenBeginStep ==
    /\ \E h \in Handlers, r \in TokenRequests : TokenBegin(h, r.auth, r.form)
    /\ UNCHANGED <<stdio_vars, client_vars, registry_vars>>

\* token(): access_token = ...; tokens[access_token] = auth_codes[code]
TokenMint(h) ==
    LET access_token == AccessToken(now)
    IN  /\ pc[h] = "mint"
        /\ tokens' = DictSet(tokens, access_token, auth_codes[local[h].code])
        /\ local' = [local EXCEPT ![h].access_token = access_token]
        /\ pc' = [pc EXCEPT ![h] = "respond"]
        /\ UNCHANGED <<now, auth_codes, history, last>>

TokenMintStep ==
    /\ \E h \in Handlers : TokenMint(h)
    /\ UNCHANGED <<stdio_vars, client_vars, registry_vars>>

\* token(): the jsonify(...) response
TokenRespond(h) ==
    LET body == [access_token |-> local[h].access_token,
                 token_type |-> "Bearer",
                 expires_in |-> 3600,
                 scope |-> auth_codes[local[h].code].scope]
    IN  /\ pc[h] = "respond"
        /\ Respond([op |-> "token", auth |-> local[h].auth,
                    form |-> local[h].form,
                    status |-> 200, body |-> body])
        /\ history' = Append(history,
                         [op |-> "token", code |-> local[h].code,
                          access_token |-> body.access_token,
                          scope |-> body.scope, replay |-> local[h].replay])
        /\ pc' = [pc EXCEPT ![h] = "idle"]
        /\ local' = [local EXCEPT ![h] = NoLocal]
        /\ UNCHANGED <<now, auth_codes, tokens>>

TokenRespondStep ==
    /\ \E h \in Handlers : TokenRespond(h)
    /\ UNCHANGED <<stdio_vars, client_vars, registry_vars>>

(***************************************************************************)
(* oauth-server.py: the MCP server behind the StaticTokenVerifier          *)
(***************************************************************************)
NoBearer == FStr(None, 1)

\* Bearer tokens a client may present: none, the static one, any minted one
BearerInputs == {NoBearer, STATIC_TOKEN} \cup DOMAIN tokens

\* mutant: the guard also looks the token up in the OAuth server's tokens
VerifierAdmits_OAuthStore(bearer) ==
    \/ bearer \in DOMAIN tokens
    \/ /\ bearer \in DOMAIN VerifierTokens
       /\ RequiredScopes \subseteq VerifierTokens[bearer].scopes

\* StaticTokenVerifier: the token is in the table, and its scopes cover
\* required_scopes (expires_at is None: never expires)
VerifierAdmits(bearer) ==
    /\ bearer \in DOMAIN VerifierTokens
    /\ RequiredScopes \subseteq VerifierTokens[bearer].scopes

\* a request to the MCP endpoint
McpRequest(bearer) ==
    /\ Respond([op |-> "mcp", bearer |-> bearer,
                status |-> IF VerifierAdmits(bearer) THEN 200 ELSE 401])
    /\ UNCHANGED <<now, auth_codes, tokens, pc, local, history>>

McpRequestStep ==
    /\ \E bearer \in BearerInputs : McpRequest(bearer)
    /\ UNCHANGED <<stdio_vars, client_vars, registry_vars>>

NextOAuth ==
    \/ Tick
    \/ AuthorizeStep
    \/ TokenBeginStep
    \/ TokenMintStep
    \/ TokenRespondStep
    \/ McpRequestStep


(***************************************************************************)
(* test_stdio_server.py: JSON on the wire and in Python                    *)
(***************************************************************************)
\* number of lines the server reads in a run
MaxLines == 3

\* JSON literals an id is written as on the wire
IntLit(neg, mag) == [t |-> "int", neg |-> neg, mag |-> mag]
StrLit(chars, escaped) == [t |-> "str", chars |-> chars, escaped |-> escaped]
NullLit == [t |-> "null"]

\* Python values
PyInt(v) == [py |-> "int", v |-> v]
PyStr(s) == [py |-> "str", s |-> s]
PyNone == [py |-> "None"]

\* json.loads of a literal: "-0" is the int 0, "a" is the str "a"
LoadsValue(lit) ==
    IF lit.t = "int" THEN PyInt(IF lit.neg THEN 0 - lit.mag ELSE lit.mag)
    ELSE IF lit.t = "str" THEN PyStr(lit.chars)
    ELSE PyNone

\* json.dumps of a Python value: shortest decimal, unescaped ASCII
DumpsValue(v) ==
    IF v.py = "int" THEN IntLit(v.v < 0, IF v.v < 0 THEN 0 - v.v ELSE v.v)
    ELSE IF v.py = "str" THEN StrLit(v.s, FALSE)
    ELSE NullLit

\* Lines on sys.stdin
BlankLine == [kind |-> "blank"]
GarbageLine == [kind |-> "garbage"]
ArrayLine == [kind |-> "array"]
\* a line whose bytes are not valid UTF-8
UndecodableLine == [kind |-> "undecodable"]
ObjectLine(fields) == [kind |-> "object", fields |-> fields]

IdLits ==
    { IntLit(FALSE, 1), IntLit(FALSE, 0), IntLit(TRUE, 0),
      StrLit("a", TRUE), StrLit("", FALSE), NullLit }

Request(method, id) == ObjectLine([jsonrpc |-> "2.0", method |-> method, id |-> id])
Notification(method) == ObjectLine([jsonrpc |-> "2.0", method |-> method])
InitializeWith(version, id) ==
    ObjectLine([jsonrpc |-> "2.0", method |-> "initialize", id |-> id,
                params |-> [protocolVersion |-> version]])

InputLines ==
    {Request(m, id) : m \in {"initialize", "tools/list"}, id \in IdLits}
    \cup {Notification(m) : m \in {"initialize", "tools/list", "tools/call"}}
    \cup {Request("tools/call", IntLit(FALSE, 1)),
          Request("bogus/method", IntLit(FALSE, 1)),
          ObjectLine([jsonrpc |-> "2.0", id |-> IntLit(FALSE, 1)]),
          InitializeWith("2024-11-05", IntLit(FALSE, 1)),
          InitializeWith("1999-01-01", IntLit(FALSE, 1)),
          BlankLine, GarbageLine, ArrayLine, UndecodableLine}

\* json.loads(line): raises on a line that is not JSON (an undecodable line
\* that sys.stdin let through with surrogate escapes is not JSON either)
Loads(line) ==
    IF line.kind \in {"garbage", "undecodable"} THEN [ok |-> FALSE]
    ELSE IF line.kind = "array" THEN [ok |-> TRUE, is_dict |-> FALSE]
    ELSE [ok |-> TRUE, is_dict |-> TRUE,
          dict |-> [k \in DOMAIN line.fields |->
                       IF k = "id" THEN LoadsValue(line.fields[k])
                       ELSE line.fields[k]]]

\* mutant: message.get("id") or None, which loses the ids 0 and ""
MessageId_Falsy(message) ==
    LET id == DictGet(message, "id", PyNone)
    IN  IF id = PyInt(0) \/ id = PyStr("") THEN PyNone ELSE id

\* message.get("id")
MessageId(message) == DictGet(message, "id", PyNone)

\* message.get("method")
MessageMethod(message) == DictGet(message, "method", None)

InitializeResult ==
    [protocolVersion |-> "2024-11-05",
     capabilities |-> [tools |-> EmptyDict],
     serverInfo |-> [name |-> "test-server", version |-> "1.0.0"]]

ToolsListResult == [tools |-> <<>>]

\* print(json.dumps(response))
Dumps(response) ==
    [jsonrpc |-> response.jsonrpc, id |-> DumpsValue(response.id),
     result |-> response.result]

\* mutant: the elif compares with a misspelt method name, so tools/list
\* falls through
Dispatch_NoToolsList(message) ==
    IF MessageMethod(message) = "initialize"
    THEN <<Dumps([jsonrpc |-> "2.0", id |-> MessageId(message),
                  result |-> InitializeResult])>>
    ELSE <<>>

\* the if/elif on message.get("method"): the lines it prints
Dispatch(message) ==
    IF MessageMethod(message) = "initialize"
    THEN <<Dumps([jsonrpc |-> "2.0", id |-> MessageId(message),
                  result |-> InitializeResult])>>
    ELSE IF MessageMethod(message) = "tools/list"
    THEN <<Dumps([jsonrpc |-> "2.0", id |-> MessageId(message),
                  result |-> ToolsListResult])>>
    ELSE <<>>

\* the body of the for loop: the lines one input line makes the server print
Handle(line) ==
    IF line.kind = "blank" THEN <<>>              \* if not line: continue
    ELSE LET m == Loads(line)
         IN  IF ~m.ok THEN <<>>                   \* json.loads raised: except
             ELSE IF ~m.is_dict THEN <<>>         \* message.get raised: except
             ELSE Dispatch(m.dict)

InitStdio ==
    /\ stdin = <<>>
    /\ stdout = <<>>
    /\ caused_by = <<>>
    /\ eof = FALSE
    /\ crashed = FALSE

\* one iteration of `for line in sys.stdin`
ReadLine(line) ==
    LET out == Handle(line)
    IN  /\ ~eof
        /\ ~crashed
        /\ Len(stdin) < MaxLines
        /\ stdin' = Append(stdin, line)
        /\ stdout' = stdout \o out
        /\ caused_by' = caused_by \o [i \in 1..Len(out) |-> Len(stdin) + 1]
        /\ UNCHANGED <<eof, crashed>>

ReadLineStep ==
    /\ \E line \in InputLines : ReadLine(line)
    /\ UNCHANGED <<oauth_vars, client_vars, registry_vars>>

\* `for line in sys.stdin` where sys.stdin decodes with errors='strict' (a
\* UTF-8 locale): the next line is undecodable, the iteration raises
\* UnicodeDecodeError outside the try block, and main() ends.  (With
\* errors='surrogateescape', the C locale, the line reaches the loop body:
\* that outcome is ReadLine(UndecodableLine).)
DecodeError ==
    /\ ~eof
    /\ ~crashed
    /\ Len(stdin) < MaxLines
    /\ stdin' = Append(stdin, UndecodableLine)
    /\ crashed' = TRUE
    /\ UNCHANGED <<stdout, caused_by, eof, oauth_vars, client_vars, registry_vars>>

\* sys.stdin is closed: the loop and main() end
EndOfInput ==
    /\ ~eof
    /\ ~crashed
    /\ eof' = TRUE
    /\ UNCHANGED <<stdin, stdout, caused_by, crashed, oauth_vars, client_vars, registry_vars>>

NextStdio ==
    \/ ReadLineStep
    \/ DecodeError
    \/ EndOfInput

(***************************************************************************)
(* Specifications                                                          *)
(***************************************************************************)
(***************************************************************************)
(* simple_test.py and test_real_stdio.py: the client scripts               *)
(***************************************************************************)
Scripts == {"simple_test", "test_real_stdio"}

\* The value response.json() returns, by its JSON type; NotJson is a body
\* on which response.json() raises.
JNull == [j |-> "null"]
JString(s) == [j |-> "string", s |-> s]
JArray(items) == [j |-> "array", items |-> items]
JObject(fields) == [j |-> "object", fields |-> fields]
NotJson == [j |-> "invalid"]

\* What requests.get/post/delete gives: an exception (connection refused,
\* timeout), or a response
Raised == [raised |-> TRUE]
Reply(status_code, headers, body) ==
    [raised |-> FALSE, status_code |-> status_code, headers |-> headers,
     body |-> body]

NoHeaders == EmptyDict
SessionHeader(s) == [k \in {"Mcp-Session-Id"} |-> s]

SomeJson == JObject([status |-> JString("ok")])

HealthReplies ==
    { Raised,
      Reply(200, NoHeaders, SomeJson),
      Reply(200, NoHeaders, NotJson),
      Reply(503, NoHeaders, NotJson) }

CreateReplies ==
    { Raised,
      Reply(201, NoHeaders, SomeJson),
      Reply(201, NoHeaders, NotJson),
      Reply(409, NoHeaders, SomeJson) }

InitializeReplies ==
    { Raised,
      Reply(200, SessionHeader("sess-1"), SomeJson),
      Reply(200, SessionHeader("sess-2"), SomeJson),
      Reply(200, SessionHeader(""), SomeJson),
      Reply(200, NoHeaders, SomeJson),
      Reply(200, SessionHeader("sess-1"), NotJson),
      Reply(500, SessionHeader("sess-1"), SomeJson),
      Reply(500, NoHeaders, NotJson) }

Tool(name) == JObject([name |-> name])
ToolsBody(tools) == JObject([result |-> JObject([tools |-> tools])])

ToolsBodies ==
    { NotJson,
      JNull,
      JArray(<<>>),
      JObject([error |-> JString("no such method")]),
      JObject([result |-> JNull]),
      JObject([result |-> JObject(EmptyDict)]),
      ToolsBody(JNull),
      ToolsBody(JString("")),
      ToolsBody(JObject(EmptyDict)),
      ToolsBody(JObject([add |-> JNull])),
      ToolsBody(JArray(<<>>)),
      ToolsBody(JArray(<<JString("add")>>)),
      ToolsBody(JArray(<<JObject(EmptyDict)>>)),
      ToolsBody(JArray(<<Tool(JString(""))>>)),
      ToolsBody(JArray(<<Tool(JString("add"))>>)),
      ToolsBody(JArray(<<Tool(JString("echo")), JString("add")>>)),
      ToolsBody(JArray(<<Tool(JString("echo")), Tool(JString("add"))>>)) }

ToolsListReplies ==
    { Raised,
      Reply(500, NoHeaders, NotJson),
      Reply(200, SessionHeader("sess-2"), ToolsBody(JArray(<<Tool(JString("add"))>>))) }
    \cup {Reply(200, NoHeaders, b) : b \in ToolsBodies}

ToolsCallReplies ==
    { Raised,
      Reply(200, NoHeaders, SomeJson),
      Reply(200, NoHeaders, NotJson),
      Reply(500, NoHeaders, NotJson) }

DeleteReplies ==
    { Raised,
      Reply(204, NoHeaders, NotJson),
      Reply(404, NoHeaders, SomeJson) }

\* bool(v) of a str or None, as in `if session_id:`
TruthyStr(s) == s # None /\ s # ""

\* bool(v) of a value response.json() returned
Truthy(v) ==
    IF v.j = "string" THEN v.s # ""
    ELSE IF v.j = "array" THEN Len(v.items) > 0
    ELSE IF v.j = "object" THEN DOMAIN v.fields # {}
    ELSE FALSE

\* `key in v` is defined on dict, list and str, and raises TypeError on None
CanContain(v) == v.j \in {"object", "array", "string"}

\* `key in v`: a key of a dict, an element of a list, a substring of a str
\* (no string of the bodies above is a proper substring of a key looked up)
PyIn(key, v) ==
    IF v.j = "object" THEN key \in DOMAIN v.fields
    ELSE IF v.j = "array" THEN \E i \in DOMAIN v.items : v.items[i] = JString(key)
    ELSE v.s = key

\* iter(v) is defined on list, dict and str
Iterable(v) == v.j \in {"array", "object", "string"}

\* [tool.get('name', 'unknown') for tool in tools] raises when an element
\* has no get: the elements of a list must be dicts, and the keys of a dict
\* and the characters of a str are str
ComprehensionRaises(tools) ==
    IF tools.j = "array" THEN \E i \in DOMAIN tools.items : tools.items[i].j # "object"
    ELSE Truthy(tools)

\* What the code after a 200 answer to tools/list does
Raise == [do |-> "raise"]
Skip == [do |-> "skip"]
Call(name) == [do |-> "call", tool_name |-> name]

\* lines 115-125 of test_real_stdio.py
ToolsListOutcome(body) ==
    IF body = NotJson \/ ~CanContain(body) THEN Raise
    ELSE IF ~PyIn("result", body) THEN Skip
    ELSE IF body.j # "object" THEN Raise
    ELSE LET result == body.fields.result
         IN  IF ~CanContain(result) THEN Raise
             ELSE IF ~PyIn("tools", result) THEN Skip
             ELSE IF result.j # "object" THEN Raise
             ELSE LET tools == result.fields.tools
                  IN  IF ~Iterable(tools) THEN Raise
                      ELSE IF ComprehensionRaises(tools) THEN Raise
                      ELSE IF ~Truthy(tools) THEN Skip
                      ELSE LET tool_name_0 ==
                                   DictGet(tools.items[1].fields, "name", JNull)
                           IN  IF Truthy(tool_name_0) THEN Call(tool_name_0)
                               ELSE Skip

\* "arguments" of the tools/call request
CallArguments(name) ==
    IF name \in {JString("add"), JString("multiply")}
    THEN [a |-> 5, b |-> 3]
    ELSE EmptyDict

\* mutant: the session id is read from the initialize answer whatever its
\* status
InitializeOk_AnyStatus(reply) == TRUE

\* if response.status_code == 200 (after initialize)
InitializeOk(reply) == reply.status_code = 200

InitClient ==
    /\ script = None
    /\ cpc = "health"
    /\ session_id = None
    /\ tool_name = JNull
    /\ returned = None
    /\ http = <<>>

\* ghost: the request just made and what came back
Exchange(op, session, reply) ==
    http' = Append(http, [op |-> op, session |-> session, reply |-> reply])

\* return False / return True
Return(value) == cpc' = "done" /\ returned' = value

Goto(label) == cpc' = label /\ UNCHANGED returned

\* one of the scripts is started: GET /health
ClientHealth ==
    /\ cpc = "health"
    /\ \E s \in Scripts, reply \in HealthReplies :
        /\ script' = s
        /\ Exchange("health", None, reply)
        /\ IF reply.raised THEN Return(FALSE)
           ELSE IF reply.status_code = 200
           THEN IF s = "simple_test" /\ reply.body = NotJson
                THEN Return(FALSE)           \* response.json() raised
                ELSE Goto("create")
           ELSE Return(FALSE)
    /\ UNCHANGED <<session_id, tool_name, oauth_vars, stdio_vars, registry_vars>>

\* POST /api/v1/adapters
ClientCreateAdapter ==
    /\ cpc = "create"
    /\ \E reply \in CreateReplies :
        /\ Exchange("create", None, reply)
        /\ IF reply.raised THEN Return(FALSE)
           ELSE IF reply.status_code = 201
           THEN IF script = "simple_test" /\ reply.body = NotJson
                THEN Return(FALSE)           \* response.json() raised
                ELSE Goto("initialize")
           ELSE Return(FALSE)
    /\ UNCHANGED <<script, session_id, tool_name, oauth_vars, stdio_vars, registry_vars>>

\* POST .../mcp with the initialize request
ClientInitialize ==
    /\ cpc = "initialize"
    /\ \E reply \in InitializeReplies :
        /\ Exchange("initialize", None, reply)
        /\ IF reply.raised
           THEN Return(FALSE) /\ UNCHANGED session_id
           ELSE IF script = "simple_test"
           THEN Goto("cleanup") /\ UNCHANGED session_id
           ELSE IF InitializeOk(reply)
           THEN IF reply.body = NotJson
                THEN Return(FALSE) /\ UNCHANGED session_id
                ELSE /\ session_id' = DictGet(reply.headers, "Mcp-Session-Id", None)
                     /\ IF TruthyStr(session_id')
                        THEN Goto("tools/list")
                        ELSE Goto("cleanup")
           ELSE Goto("cleanup") /\ UNCHANGED session_id
    /\ UNCHANGED <<script, tool_name, oauth_vars, stdio_vars, registry_vars>>

\* POST .../mcp with the tools/list request
ClientToolsList ==
    /\ cpc = "tools/list"
    /\ \E reply \in ToolsListReplies :
        /\ Exchange("tools/list", session_id, reply)
        /\ IF reply.raised
           THEN Return(FALSE) /\ UNCHANGED tool_name
           ELSE IF reply.status_code = 200
           THEN LET outcome == ToolsListOutcome(reply.body)
                IN  IF outcome = Raise
                    THEN Return(FALSE) /\ UNCHANGED tool_name
                    ELSE IF outcome = Skip
                    THEN Goto("cleanup") /\ UNCHANGED tool_name
                    ELSE Goto("tools/call") /\ tool_name' = outcome.tool_name
           ELSE Goto("cleanup") /\ UNCHANGED tool_name
    /\ UNCHANGED <<script, session_id, oauth_vars, stdio_vars, registry_vars>>

\* POST .../mcp with the tools/call request
ClientToolsCall ==
    /\ cpc = "tools/call"
    /\ \E reply \in ToolsCallReplies :
        /\ http' = Append(http, [op |-> "tools/call", session |-> session_id,
                                 reply |-> reply, name |-> tool_name,
                                 arguments |-> CallArguments(tool_name)])
        /\ IF reply.raised THEN Return(FALSE)
           ELSE IF reply.status_code = 200 /\ reply.body = NotJson
           THEN Return(FALSE)                \* response.json() raised
           ELSE Goto("cleanup")
    /\ UNCHANGED <<script, session_id, tool_name, oauth_vars, stdio_vars, registry_vars>>

\* DELETE /api/v1/adapters/<name>, then return True
ClientCleanup ==
    /\ cpc = "cleanup"
    /\ \E reply \in DeleteReplies :
        /\ Exchange("delete", None, reply)
        /\ Return(TRUE)
    /\ UNCHANGED <<script, session_id, tool_name, oauth_vars, stdio_vars, registry_vars>>

NextClient ==
    \/ ClientHealth
    \/ ClientCreateAdapter
    \/ ClientInitialize
    \/ ClientToolsList
    \/ ClientToolsCall
    \/ ClientCleanup


(***************************************************************************)
(* examples/virtualmcp/src/main.py: MCPRegistry and its routes             *)
(* (the read-only routes GET /health and GET /api/v1/mcps[/<id>] change    *)
(* nothing and are left out)                                               *)
(***************************************************************************)
\* number of POST, PUT and DELETE requests in a run
MaxCalls == 3

\* An implementation id: a string given by the caller, or str(uuid4()),
\* kept as the number of the draw (two draws never give the same value)
Id(s) == FStr(s, 0)
Uuid4(n) == FStr("uuid4-", n)

\* an "id" that is a JSON array: a list, which cannot be a dict key
UnhashableId == FStr("<list>", 0)
Hashable(id) == id # UnhashableId

\* datetime.utcnow().isoformat(): one string per instant
IsoFormat(t) == FStr("utc", t)

\* MCPImplementation.__init__
MCPImplementation(id, name, description, version, t) ==
    [id |-> id, name |-> name, description |-> description,
     version |-> version, transport |-> "stdio", capabilities |-> <<>>,
     config_template |-> "{}", tools |-> <<>>, prompts |-> <<>>,
     created_at |-> IsoFormat(t), updated_at |-> IsoFormat(t)]

\* MCPRegistry._initialize_default_implementations (a config_template and a
\* tool are kept by the name of their script and of the tool)
Claude(t) ==
    [MCPImplementation(Id("anthropic-claude-3"), "Anthropic Claude 3",
                       "Claude 3 model via Anthropic API", "1.0.0", t)
        EXCEPT !.capabilities = <<"chat", "completion", "tools">>,
               !.config_template = "claude_server.py",
               !.tools = <<"chat_completion">>]
Gpt(t) ==
    [MCPImplementation(Id("openai-gpt-4"), "OpenAI GPT-4",
                       "GPT-4 model via OpenAI API", "1.0.0", t)
        EXCEPT !.capabilities = <<"chat", "completion", "tools", "embeddings">>,
               !.config_template = "openai_server.py",
               !.tools = <<"chat_completion">>]
Filesystem(t) ==
    [MCPImplementation(Id("filesystem-local"), "Local Filesystem",
                       "Access local filesystem operations", "1.0.0", t)
        EXCEPT !.capabilities = <<"filesystem", "tools">>,
               !.config_template = "filesystem_server.py",
               !.tools = <<"read_file", "list_directory">>]
DefaultImplementations(t) ==
    DictSet(DictSet(DictSet(EmptyDict, Claude(t).id, Claude(t)),
                    Gpt(t).id, Gpt(t)),
            Filesystem(t).id, Filesystem(t))

\* del d[key]
DictDel(d, key) == [k \in DOMAIN d \ {key} |-> d[k]]

\* The body of a request: sent without a JSON content type, sent as
\* application/json with nothing in it, or a JSON document
NoContentType == [kind |-> "no-content-type"]
EmptyJsonBody == [kind |-> "empty"]
JsonBody(value) == [kind |-> "json", value |-> value]

\* request.get_json(): what it returns, or that it raises.  On a body that
\* is not JSON it raises BadRequest; without a JSON content type it returns
\* None (Werkzeug before 2.1) or raises (2.1 and later).
GetJson(body) ==
    IF body.kind = "json" THEN {[raised |-> FALSE, data |-> body.value]}
    ELSE IF body.kind = "empty" THEN {[raised |-> TRUE]}
    ELSE {[raised |-> FALSE, data |-> JNull], [raised |-> TRUE]}

\* Bodies of POST /api/v1/mcps
Named == [name |-> "My MCP", description |-> "mine"]
AddBodies ==
    { NoContentType, EmptyJsonBody,
      JsonBody(JNull),
      JsonBody(JObject(EmptyDict)),
      JsonBody(JArray(<<JString("name"), JString("description")>>)),
      JsonBody(JObject([name |-> "My MCP"])),
      JsonBody(JObject([description |-> "mine"])),
      JsonBody(JObject([id |-> Id("filesystem-local")])),
      JsonBody(JObject(Named)),
      JsonBody(JObject([id |-> Id("filesystem-local"), name |-> "My MCP",
                        description |-> "mine"])),
      JsonBody(JObject([id |-> Id("custom-1"), name |-> "My MCP",
                        description |-> "mine", version |-> "2.0.0",
                        tools |-> <<"my_tool">>, created_at |-> IsoFormat(0 - 1)])),
      JsonBody(JObject([id |-> UnhashableId, name |-> "My MCP",
                        description |-> "mine"])) }

\* Bodies of PUT /api/v1/mcps/<impl_id>
UpdateBodies ==
    { NoContentType, EmptyJsonBody,
      JsonBody(JNull),
      JsonBody(JObject(EmptyDict)),
      JsonBody(JArray(<<JString("name")>>)),
      JsonBody(JObject([name |-> "Renamed"])),
      JsonBody(JObject([bogus |-> "x"])),
      JsonBody(JObject([id |-> Id("hijacked"), created_at |-> IsoFormat(0 - 1),
                        updated_at |-> IsoFormat(0 - 1), version |-> "9.9.9"])) }

\* The <impl_id> of PUT and DELETE
PathIds == {Id("filesystem-local"), Id("custom-1"), Id("no-such-id")}

\* mutant: created_at is taken from the data when the data has one
NewImplementation_DataCreatedAt(impl_id, impl_data, t) ==
    [MCPImplementation(impl_id, impl_data.name, impl_data.description,
                       DictGet(impl_data, "version", "1.0.0"), t)
        EXCEPT !.transport = DictGet(impl_data, "transport", "stdio"),
               !.capabilities = DictGet(impl_data, "capabilities", <<>>),
               !.config_template = DictGet(impl_data, "config_template", "{}"),
               !.tools = DictGet(impl_data, "tools", <<>>),
               !.prompts = DictGet(impl_data, "prompts", <<>>),
               !.created_at = DictGet(impl_data, "created_at", IsoFormat(t))]

\* add_implementation: the entry built from a dict (lines 207-220)
NewImplementation(impl_id, impl_data, t) ==
    [MCPImplementation(impl_id, impl_data.name, impl_data.description,
                       DictGet(impl_data, "version", "1.0.0"), t)
        EXCEPT !.transport = DictGet(impl_data, "transport", "stdio"),
               !.capabilities = DictGet(impl_data, "capabilities", <<>>),
               !.config_template = DictGet(impl_data, "config_template", "{}"),
               !.tools = DictGet(impl_data, "tools", <<>>),
               !.prompts = DictGet(impl_data, "prompts", <<>>)]

\* the keys update_implementation acts on
UpdateKeys ==
    {"name", "description", "version", "transport", "capabilities",
     "config_template", "tools", "prompts"}

\* mutant: the loop sets every attribute the data names (setattr)
Updated_SetAttr(impl, impl_data, t) ==
    [k \in DOMAIN impl |->
        IF k \in DOMAIN impl_data THEN impl_data[k]
        ELSE IF k = "updated_at" THEN IsoFormat(t)
        ELSE impl[k]]

\* update_implementation: the for loop over impl_data.items() and the new
\* updated_at (lines 233-251)
Updated(impl, impl_data, t) ==
    [k \in DOMAIN impl |->
        IF k = "updated_at" THEN IsoFormat(t)
        ELSE IF k \in UpdateKeys /\ k \in DOMAIN impl_data THEN impl_data[k]
        ELSE impl[k]]

\* What a registry method gave its route
NotCalled == [r |-> "not called"]
Raises == [r |-> "raised"]
ReturnsNone == [r |-> "None"]
ReturnsBool(b) == [r |-> "bool", value |-> b]
ReturnsDict(impl) == [r |-> "dict", dict |-> impl]

InitRegistry ==
    /\ utcnow = 0
    /\ implementations = DefaultImplementations(0)
    /\ uuids = 0
    /\ deleting = [id \in PathIds |-> 0]
    /\ calls = 0
    /\ rlast = [n |-> 0, op |-> "none"]

\* the DELETE requests between the membership test and the del
InFlightDeletes ==
    LET RECURSIVE Sum(_)
        Sum(S) == IF S = {} THEN 0
                  ELSE LET x == CHOOSE x \in S : TRUE
                       IN  deleting[x] + Sum(S \ {x})
    IN  Sum(PathIds)

\* a further request is taken while fewer than MaxCalls have been
RegistryAdmit == calls + InFlightDeletes < MaxCalls

\* the clock advances
RegistryTick ==
    /\ utcnow < MaxTime
    /\ utcnow' = utcnow + 1
    /\ UNCHANGED <<implementations, uuids, deleting, calls, rlast,
                   oauth_vars, stdio_vars, client_vars>>

\* ghost: the request just answered, its status and what the registry
\* method returned
Answer(op, impl_id, body, status, result) ==
    /\ rlast' = [n |-> calls + 1, op |-> op, id |-> impl_id, body |-> body,
                 status |-> status, result |-> result]
    /\ calls' = calls + 1

\* the required_fields loop of add_mcp_implementation
MissingField(data) == ~PyIn("name", data) \/ ~PyIn("description", data)

\* POST /api/v1/mcps: add_mcp_implementation and add_implementation
AddMcpImplementation(body) ==
    /\ RegistryAdmit
    /\ \E got \in GetJson(body) :
        IF got.raised
        THEN /\ Answer("add", NoneCode, body, 500, NotCalled)
             /\ UNCHANGED <<implementations, uuids>>
        ELSE IF ~Truthy(got.data) \/ MissingField(got.data)
        THEN /\ Answer("add", NoneCode, body, 400, NotCalled)
             /\ UNCHANGED <<implementations, uuids>>
        ELSE IF got.data.j # "object"       \* impl_data.get: AttributeError
        THEN /\ Answer("add", NoneCode, body, 500, Raises)
             /\ UNCHANGED <<implementations, uuids>>
        ELSE LET impl_data == got.data.fields
                 drawn == "id" \notin DOMAIN impl_data
                 impl_id == IF drawn THEN Uuid4(uuids + 1) ELSE impl_data.id
                 impl == NewImplementation(impl_id, impl_data, utcnow)
             IN  /\ uuids' = IF drawn THEN uuids + 1 ELSE uuids
                 /\ IF Hashable(impl_id)
                    THEN /\ implementations' = DictSet(implementations, impl_id, impl)
                         /\ Answer("add", impl_id, body, 201, ReturnsDict(impl))
                    ELSE /\ Answer("add", impl_id, body, 500, Raises)
                         /\ UNCHANGED implementations
    /\ UNCHANGED <<utcnow, deleting, oauth_vars, stdio_vars, client_vars>>

AddStep == \E body \in AddBodies : AddMcpImplementation(body)

\* PUT /api/v1/mcps/<impl_id>: update_mcp_implementation and
\* update_implementation
UpdateMcpImplementation(impl_id, body) ==
    /\ RegistryAdmit
    /\ \E got \in GetJson(body) :
        IF got.raised
        THEN /\ Answer("update", impl_id, body, 500, NotCalled)
             /\ UNCHANGED implementations
        ELSE IF ~Truthy(got.data)
        THEN /\ Answer("update", impl_id, body, 400, NotCalled)
             /\ UNCHANGED implementations
        ELSE IF impl_id \notin DOMAIN implementations
        THEN /\ Answer("update", impl_id, body, 404, ReturnsNone)
             /\ UNCHANGED implementations
        ELSE IF got.data.j # "object"       \* impl_data.items: AttributeError
        THEN /\ Answer("update", impl_id, body, 500, Raises)
             /\ UNCHANGED implementations
        ELSE LET impl == Updated(implementations[impl_id], got.data.fields, utcnow)
             IN  /\ implementations' = [implementations EXCEPT ![impl_id] = impl]
                 /\ Answer("update", impl_id, body, 200, ReturnsDict(impl))
    /\ UNCHANGED <<utcnow, uuids, deleting, oauth_vars, stdio_vars, client_vars>>

UpdateStep ==
    \E impl_id \in PathIds, body \in UpdateBodies :
        UpdateMcpImplementation(impl_id, body)

\* mutant: delete_implementation ends with return True
DeleteMissing_True == ReturnsBool(TRUE)

\* delete_implementation when the id is not a key: return False
DeleteMissing == ReturnsBool(FALSE)

\* delete_mcp_implementation: the status for what delete_implementation
\* returned
DeleteStatus(result) == IF result.value THEN 200 ELSE 404

\* DELETE /api/v1/mcps/<impl_id>, up to `if impl_id in self.implementations`
DeleteBegin(impl_id) ==
    /\ RegistryAdmit
    /\ InFlightDeletes < Cardinality(Handlers)
    /\ IF impl_id \in DOMAIN implementations
       THEN /\ deleting' = [deleting EXCEPT ![impl_id] = @ + 1]
            /\ UNCHANGED <<calls, rlast>>
       ELSE /\ Answer("delete", impl_id, EmptyJsonBody,
                      DeleteStatus(DeleteMissing), DeleteMissing)
            /\ UNCHANGED deleting
    /\ UNCHANGED <<utcnow, implementations, uuids,
                   oauth_vars, stdio_vars, client_vars>>

DeleteBeginStep == \E impl_id \in PathIds : DeleteBegin(impl_id)

\* DELETE: `del self.implementations[impl_id]` and the answer; the del
\* raises KeyError when another request has deleted the entry meanwhile
DeleteFinish(impl_id) ==
    /\ deleting[impl_id] > 0
    /\ deleting' = [deleting EXCEPT ![impl_id] = @ - 1]
    /\ IF impl_id \in DOMAIN implementations
       THEN /\ implementations' = DictDel(implementations, impl_id)
            /\ Answer("delete", impl_id, EmptyJsonBody,
                      DeleteStatus(ReturnsBool(TRUE)), ReturnsBool(TRUE))
       ELSE /\ Answer("delete", impl_id, EmptyJsonBody, 500, Raises)
            /\ UNCHANGED implementations
    /\ UNCHANGED <<utcnow, uuids, oauth_vars, stdio_vars, client_vars>>

DeleteFinishStep == \E impl_id \in PathIds : DeleteFinish(impl_id)

NextRegistry ==
    \/ RegistryTick
    \/ AddStep
    \/ UpdateStep
    \/ DeleteBeginStep
    \/ DeleteFinishStep


Init == InitOAuth /\ InitStdio /\ InitClient /\ InitRegistry

SpecOAuth == Init /\ [][NextOAuth]_vars

SpecStdio == Init /\ [][NextStdio]_vars

SpecClient == Init /\ [][NextClient]_vars

SpecRegistry == Init /\ [][NextRegistry]_vars


(***************************************************************************)
(* Claims about oauth-server.py, checked under SpecOAuth                   *)
(***************************************************************************)
TokenEntries == {i \in DOMAIN history : history[i].op = "token"}
AuthorizeEntries == {i \in DOMAIN history : history[i].op = "authorize"}
GoodCredentials == BasicAuth(CLIENT_ID, CLIENT_SECRET)

\* C1: an authorization code is exchanged at most once: no exchange request
\* that arrives after a successful exchange of the same code has been
\* answered succeeds (it fails with invalid_grant and mints nothing).
C1_CodeExchangedAtMostOnce ==
    \A j \in TokenEntries : ~history[j].replay

\* C2: the scope of the access token an exchange returns for a code is a
\* subset of the scope requested in every authorize call that returned that
\* code to its caller.
C2_TokenScopeWithinRequested ==
    \A i \in AuthorizeEntries, j \in TokenEntries :
        (i < j /\ history[i].code = history[j].code)
            => ScopeSet(history[j].scope) \subseteq ScopeSet(history[i].scope)

C7_AuthorizeCodesDiffer ==
    \A i, j \in AuthorizeEntries :
        i < j => history[i].code # history[j].code

\* C8: two exchanges of the same code handled concurrently (the second
\* arrived before the first was answered) never both succeed.
C8_ConcurrentExchangeExclusive ==
    \A i, j \in TokenEntries :
        (i < j /\ history[i].code = history[j].code) => history[j].replay

\* C9: authorize with a client_id other than CLIENT_ID is answered 400,
\* without a redirect, and leaves auth_codes and tokens unchanged.
C9_AuthorizeUnknownClientRejected ==
    [][(/\ last' # last
        /\ last'.op = "authorize"
        /\ DictGet(last'.args, "client_id", None) # CLIENT_ID)
          => (/\ last'.status = 400
              /\ "location" \notin DOMAIN last'
              /\ auth_codes' = auth_codes
              /\ tokens' = tokens)]_vars

\* C9 witness: an unknown client was refused while both stores held entries.
C9_Witness ==
    /\ last.op = "authorize"
    /\ DictGet(last.args, "client_id", None) = "evil-client"
    /\ last.status = 400
    /\ DOMAIN auth_codes # {}
    /\ DOMAIN tokens # {}

\* C10: exchange with missing or non-matching client credentials is answered
\* 401 invalid_client whatever grant_type and code are, and leaves
\* auth_codes and tokens unchanged (and mints nothing later).
C10_ExchangeBadCredentialsRejected ==
    [][(/\ last' # last
        /\ last'.op = "token"
        /\ last'.auth # GoodCredentials)
          => (/\ last'.status = 401
              /\ last'.error = "invalid_client"
              /\ auth_codes' = auth_codes
              /\ tokens' = tokens)]_vars

\* C10 witness: a request with a wrong secret for an issued code and the
\* right grant_type was refused with 401.
C10_Witness ==
    /\ last.op = "token"
    /\ last.auth = BasicAuth(CLIENT_ID, "wrong-secret")
    /\ last.form.grant_type = "authorization_code"
    /\ last.form.code \in DOMAIN auth_codes
    /\ last.status = 401


\* the codes authorize calls have returned so far
IssuedCodes == {history[i].code : i \in AuthorizeEntries}

\* C11: exchange with correct credentials but a grant_type other than
\* authorization_code, or with a code no authorize call has issued, is
\* answered 400 invalid_grant, mints no token, and leaves auth_codes and
\* tokens unchanged.
C11_ExchangeBadGrantRejected ==
    [][(/\ last' # last
        /\ last'.op = "token"
        /\ last'.auth = GoodCredentials
        /\ \/ DictGet(last'.form, "grant_type", None) # "authorization_code"
           \/ DictGet(last'.form, "code", NoneCode) \notin IssuedCodes)
          => (/\ last'.status = 400
              /\ last'.error = "invalid_grant"
              /\ auth_codes' = auth_codes
              /\ tokens' = tokens
              /\ pc' = pc)]_vars

\* C11 witness: with both stores holding entries, an exchange of a code that
\* was never issued, with correct credentials and grant_type, was refused.
C11_Witness ==
    /\ last.op = "token"
    /\ last.auth = GoodCredentials
    /\ last.form.grant_type = "authorization_code"
    /\ "code" \in DOMAIN last.form
    /\ last.form.code \notin IssuedCodes
    /\ last.status = 400
    /\ DOMAIN auth_codes # {}
    /\ DOMAIN tokens # {}

\* C12: a successful exchange returns token_type Bearer and the scope stored
\* with the exchanged code, and when it is answered tokens maps the returned
\* access_token to a record with that code's client_id and scope.
C12_ExchangeReturnsStoredGrant ==
    [][(/\ last' # last
        /\ last'.op = "token"
        /\ last'.status = 200)
          => LET code   == last'.form.code
                 stored == auth_codes'[code]
                 minted == tokens'[last'.body.access_token]
             IN  /\ last'.body.token_type = "Bearer"
                 /\ last'.body.scope = stored.scope
                 /\ minted.client_id = stored.client_id
                 /\ minted.scope = stored.scope]_vars

\* C19: any two successful exchanges return different access tokens (so no
\* record of tokens is replaced once written).
C19_AccessTokensDiffer ==
    \A i, j \in TokenEntries :
        i < j => history[i].access_token # history[j].access_token

(***************************************************************************)
(* Claims about test_stdio_server.py, checked under SpecStdio              *)
(***************************************************************************)
\* the input line that made the server print stdout[k]
Cause(k) == stdin[caused_by[k]]

IsObject(line) == line.kind = "object"
HasId(line) == IsObject(line) /\ "id" \in DOMAIN line.fields
MethodOf(line) == IF IsObject(line) THEN DictGet(line.fields, "method", None) ELSE None

\* an initialize request read before line i has been answered with a result
InitializedBefore(i) ==
    \E k \in DOMAIN stdout :
        /\ caused_by[k] < i
        /\ MethodOf(Cause(k)) = "initialize"
        /\ "result" \in DOMAIN stdout[k]

\* C4: a tools/list or tools/call request read before any initialize request
\* has completed is never answered with a success result (it is answered
\* with an InvalidRequest error).
C4_NoToolsBeforeInitialize ==
    \A k \in DOMAIN stdout :
        (/\ MethodOf(Cause(k)) \in {"tools/list", "tools/call"}
         /\ ~InitializedBefore(caused_by[k]))
            => (/\ "result" \notin DOMAIN stdout[k]
                /\ "error" \in DOMAIN stdout[k])

\* C5: every response line carries the id of the request that caused it,
\* as JSON values, for integer, string and null ids, in any sequence of
\* requests.
C5_ResponseIdEchoesRequestId ==
    \A k \in DOMAIN stdout :
        HasId(Cause(k)) =>
            LoadsValue(stdout[k].id) = LoadsValue(Cause(k).fields.id)

\* C5 witness: three requests, with the ids -0, "a" and null, have each
\* been answered.
C5_Witness ==
    /\ Len(stdout) = 3
    /\ \A k \in 1..3 : HasId(Cause(k))
    /\ Cause(1).fields.id = IntLit(TRUE, 0)
    /\ Cause(2).fields.id = StrLit("a", TRUE)
    /\ Cause(3).fields.id = NullLit
    /\ stdout[1].id = IntLit(FALSE, 0)
    /\ stdout[2].id = StrLit("a", FALSE)

\* C6: a message without an id (a notification) makes the server print no
\* response line, whatever its method.
C6_NotificationGetsNoResponse ==
    \A k \in DOMAIN stdout : HasId(Cause(k))


\* the printed lines that input line i caused
Responses(i) == {k \in DOMAIN stdout : caused_by[k] = i}

\* a request: a message with a method and an id
IsRequest(line) == HasId(line) /\ MethodOf(line) # None

\* exactly one of result and error
OneOfResultError(response) ==
    ("result" \in DOMAIN response) # ("error" \in DOMAIN response)

\* C13: every request with an id that the server reads is answered with
\* exactly one response line, carrying exactly one of result and error
\* (an unhandled method gets an error, not silence).
C13_EveryRequestAnswered ==
    \A i \in DOMAIN stdin :
        IsRequest(stdin[i]) =>
            /\ Cardinality(Responses(i)) = 1
            /\ \A k \in Responses(i) : OneOfResultError(stdout[k])

\* a line that is not valid JSON, or JSON that is not an object
Malformed(line) == line.kind \in {"garbage", "array", "undecodable"}

\* C14: a malformed input line produces no response line and does not end
\* the read loop: every initialize or tools/list request read after it is
\* answered.
C14_MalformedLineSkipped ==
    \A i \in DOMAIN stdin :
        Malformed(stdin[i]) =>
            /\ Responses(i) = {}
            /\ ~crashed
            /\ \A j \in DOMAIN stdin :
                  (/\ j > i
                   /\ IsRequest(stdin[j])
                   /\ MethodOf(stdin[j]) \in {"initialize", "tools/list"})
                      => Responses(j) # {}

\* the protocol version the server answers initialize with
SupportedVersions == {InitializeResult.protocolVersion}

UnsupportedInitialize(line) ==
    /\ IsRequest(line)
    /\ MethodOf(line) = "initialize"
    /\ "params" \in DOMAIN line.fields
    /\ line.fields.params.protocolVersion \notin SupportedVersions

\* C16: an initialize request with an unsupported params.protocolVersion is
\* answered, with an error response and not with a success result.
C16_UnsupportedVersionRejected ==
    \A i \in DOMAIN stdin :
        UnsupportedInitialize(stdin[i]) =>
            /\ Responses(i) # {}
            /\ \A k \in Responses(i) :
                  /\ "error" \in DOMAIN stdout[k]
                  /\ "result" \notin DOMAIN stdout[k]

\* C17: an initialize request with an id is answered by exactly one line
\* whose result holds serverInfo; a tools/list request read after it is
\* answered by exactly one line whose result holds a tools array; the
\* responses are printed in the order the requests were read.
C17_InitializeThenToolsList ==
    /\ \A i \in DOMAIN stdin :
          (IsRequest(stdin[i]) /\ MethodOf(stdin[i]) = "initialize") =>
              /\ Cardinality(Responses(i)) = 1
              /\ \A k \in Responses(i) :
                    /\ "result" \in DOMAIN stdout[k]
                    /\ "serverInfo" \in DOMAIN stdout[k].result
    /\ \A i \in DOMAIN stdin :
          (/\ IsRequest(stdin[i])
           /\ MethodOf(stdin[i]) = "tools/list"
           /\ \E j \in 1..(i - 1) :
                 IsRequest(stdin[j]) /\ MethodOf(stdin[j]) = "initialize") =>
              /\ Cardinality(Responses(i)) = 1
              /\ \A k \in Responses(i) :
                    /\ "result" \in DOMAIN stdout[k]
                    /\ "tools" \in DOMAIN stdout[k].result
                    /\ stdout[k].result.tools \in Seq(STRING)
    /\ \A k1, k2 \in DOMAIN stdout :
          k1 < k2 => caused_by[k1] < caused_by[k2]

\* C17 witness: initialize with id 1, then tools/list, each answered once,
\* in that order.
C17_Witness ==
    /\ Len(stdin) = 2
    /\ stdin[1] = InitializeWith("2024-11-05", IntLit(FALSE, 1))
    /\ stdin[2] = Request("tools/list", IntLit(FALSE, 1))
    /\ Len(stdout) = 2
    /\ caused_by = <<1, 2>>
    /\ "serverInfo" \in DOMAIN stdout[1].result
    /\ stdout[2].result.tools = <<>>


(***************************************************************************)
(* Claims about the client scripts                                         *)
(***************************************************************************)
\* the answer came back (nothing was raised) with this status
Answered(entry, status_code) ==
    ~entry.reply.raised /\ entry.reply.status_code = status_code

\* the answer carries a non-empty tools array in result.tools
HasTools(reply) ==
    /\ reply.body.j = "object"
    /\ "result" \in DOMAIN reply.body.fields
    /\ reply.body.fields.result.j = "object"
    /\ "tools" \in DOMAIN reply.body.fields.result.fields
    /\ reply.body.fields.result.fields.tools.j = "array"
    /\ Len(reply.body.fields.result.fields.tools.items) > 0

\* the requests to the MCP endpoint made after the initialize request
McpAfterInitialize ==
    {i \in DOMAIN http : http[i].op \in {"tools/list", "tools/call"}}

\* the session id of the initialize answer
IssuedSession ==
    LET i == CHOOSE i \in DOMAIN http : http[i].op = "initialize"
    IN  http[i].reply.headers["Mcp-Session-Id"]

\* C18: test_real_stdio sends tools/list only right after initialize was
\* answered 200 with an Mcp-Session-Id header, sends tools/call only right
\* after tools/list was answered 200 with a non-empty tools array, and
\* every MCP request after initialize carries the session id of the
\* initialize answer.
C18_HandshakeOrder ==
    script = "test_real_stdio" =>
        /\ \A i \in DOMAIN http :
              http[i].op = "tools/list" =>
                  /\ i > 1
                  /\ http[i - 1].op = "initialize"
                  /\ Answered(http[i - 1], 200)
                  /\ "Mcp-Session-Id" \in DOMAIN http[i - 1].reply.headers
        /\ \A i \in DOMAIN http :
              http[i].op = "tools/call" =>
                  /\ i > 1
                  /\ http[i - 1].op = "tools/list"
                  /\ Answered(http[i - 1], 200)
                  /\ HasTools(http[i - 1].reply)
        /\ \A i \in McpAfterInitialize : http[i].session = IssuedSession

\* C18 witness: the script ran through initialize, tools/list and
\* tools/call with the session id sess-1 and returned.
C18_Witness ==
    /\ script = "test_real_stdio"
    /\ cpc = "done"
    /\ returned = TRUE
    /\ \E i, j \in DOMAIN http :
          /\ http[i].op = "tools/list" /\ http[i].session = "sess-1"
          /\ http[j].op = "tools/call" /\ http[j].session = "sess-1"
          /\ http[j].name = JString("add")

\* C20: once POST /api/v1/adapters was answered 201, test_service() does
\* not return before it has sent the DELETE request for the adapter.
C20_CleanupOnEveryPath ==
    (/\ cpc = "done"
     /\ \E i \in DOMAIN http : http[i].op = "create" /\ Answered(http[i], 201))
        => \E j \in DOMAIN http : http[j].op = "delete"

(***************************************************************************)
(* Claims about MCPRegistry, checked under SpecRegistry                    *)
(***************************************************************************)
\* this step answers a request of the kind op
Answers(op) == rlast'.n # rlast.n /\ rlast'.op = op

\* the body is a JSON object
IsDictBody(body) == body.kind = "json" /\ body.value.j = "object"

\* C21: every key of implementations maps to an implementation with that
\* id, and an update changes neither id nor created_at of any entry.
C21_KeyIsIdAndUpdateKeepsIdentity ==
    /\ [](\A k \in DOMAIN implementations : implementations[k].id = k)
    /\ [][Answers("update") =>
            /\ DOMAIN implementations' = DOMAIN implementations
            /\ \A k \in DOMAIN implementations :
                  /\ implementations'[k].id = implementations[k].id
                  /\ implementations'[k].created_at = implementations[k].created_at]_vars

\* C21 witness: an update whose data names id and created_at was applied
\* to an entry added after the start.
C21_Witness ==
    /\ rlast.op = "update"
    /\ rlast.status = 200
    /\ rlast.id = Id("custom-1")
    /\ "id" \in DOMAIN rlast.body.value.fields
    /\ "created_at" \in DOMAIN rlast.body.value.fields
    /\ implementations[rlast.id].version = "9.9.9"

\* C22: update (once the route calls the method) and delete with an id
\* that is not a key answer None / False and 404 and change nothing; a
\* successful delete removes the key, so a second delete is such a call;
\* an update never adds a key.
C22_AbsentIdNotFound ==
    [][/\ (/\ Answers("update")
           /\ rlast'.result # NotCalled
           /\ rlast'.id \notin DOMAIN implementations)
          => (/\ rlast'.result = ReturnsNone
              /\ rlast'.status = 404
              /\ implementations' = implementations)
       /\ (/\ Answers("delete")
           /\ deleting' = deleting          \* called in this very step
           /\ rlast'.id \notin DOMAIN implementations)
          => (/\ rlast'.result = ReturnsBool(FALSE)
              /\ rlast'.status = 404
              /\ implementations' = implementations)
       /\ (Answers("delete") /\ rlast'.result = ReturnsBool(TRUE))
          => rlast'.id \notin DOMAIN implementations'
       /\ Answers("update")
          => DOMAIN implementations' \subseteq DOMAIN implementations]_vars

\* calls 2 and 3 were a successful delete of a default entry and a second
\* delete of it
C22_Witness ==
    /\ rlast.op = "delete"
    /\ rlast.id = Id("filesystem-local")
    /\ rlast.status = 404
    /\ rlast.result = ReturnsBool(FALSE)
    /\ Id("filesystem-local") \notin DOMAIN implementations

\* the data of a POST that reaches add_implementation as a dict with name
\* and description
AddData(body) == body.value.fields
ReachesAdd(body) ==
    /\ IsDictBody(body)
    /\ {"name", "description"} \subseteq DOMAIN AddData(body)

NoData(body) ==
    body \in {NoContentType, EmptyJsonBody, JsonBody(JObject(EmptyDict))}

\* a JSON object without name or without description
LacksRequired(body) ==
    /\ IsDictBody(body)
    /\ ~({"name", "description"} \subseteq DOMAIN body.value.fields)

\* C24: POST with no JSON body, an empty object or a body lacking name or
\* description, and PUT with no body or an empty object, are answered 400
\* and change nothing in the registry.
C24_BadBodyRejected ==
    [][/\ (Answers("add") /\ (NoData(rlast'.body) \/ LacksRequired(rlast'.body)))
          => (rlast'.status = 400 /\ implementations' = implementations)
       /\ (Answers("update") /\ NoData(rlast'.body))
          => (/\ rlast'.status = 400
              /\ rlast'.result = NotCalled
              /\ implementations' = implementations)]_vars

====
